---- MODULE Spec2Model ----
(***************************************************************************)
(* A model of XmlBreaker (src/src/xml_breaker.py): an object that parses   *)
(* an XML document, looks elements up by tag, splits the children of an    *)
(* element into chunks (one deep copy of the whole document per chunk) and *)
(* writes a document to a file.                                            *)
(*                                                                         *)
(* The documents live in a heap of nodes, so that a node shared between    *)
(* two documents is something the model can express: a node is a record    *)
(* [tag, attrib, text, tail, kids, parent], kids a sequence of node ids    *)
(* and parent a node id (0: none).  attrib, text and tail are numbers,     *)
(* 0 standing for "no attributes" / None.                                  *)
(***************************************************************************)
EXTENDS Integers, Sequences, FiniteSets, TLC

\* ------------------------------------------------------------- bounds

\* The largest number of records under the target element of an input.
MaxRecords == 3

\* The largest chunk size a caller passes (the smallest is -1).
MaxChunk == 2

\* How many times the caller mutates the documents of one split.
MaxMutations == 1

\* ------------------------------------------------------- the documents

None == 0

\* One record of the feed: a leaf whose text tells it from the others.
RecordTree(i) ==
    [tag |-> "rec", attrib |-> None, text |-> 10 + i, tail |-> 20 + i, kids |-> <<>>]

\* The input documents: a feed holding a list of n records and, after the
\* list, one more record of its own; the list carries an attribute, a text
\* and a tail.
FeedTree(n) ==
    [tag |-> "feed", attrib |-> 1, text |-> 2, tail |-> None,
     kids |-> << [tag |-> "records", attrib |-> 3, text |-> 4, tail |-> 5,
                  kids |-> [i \in 1..n |-> RecordTree(i)]],
                 [tag |-> "rec", attrib |-> 6, text |-> 7, tail |-> None,
                  kids |-> <<>>] >>]

\* The bytes handed to the constructor: empty, or a document (the bytes of a
\* well-formed document are modelled by the tree they spell).
EmptyBytes == <<>>

XmlInputs == {EmptyBytes} \cup {FeedTree(n) : n \in 0..MaxRecords}

\* ------------------------------------------------------------ the heap

RECURSIVE SizeOf(_)
\* The number of nodes of a tree value.
SizeOf(t) ==
    LET RECURSIVE Sum(_, _)
        Sum(ks, i) == IF i > Len(ks) THEN 0 ELSE SizeOf(ks[i]) + Sum(ks, i + 1)
    IN 1 + Sum(t.kids, 1)

RECURSIVE Flat(_, _, _)
\* The nodes of tree value t in document order, the node of t at id base + 1
\* and its parent at id p; each without its kids, which Build links.
Flat(t, p, base) ==
    LET RECURSIVE FlatKids(_, _)
        FlatKids(i, b) ==
            IF i > Len(t.kids) THEN <<>>
            ELSE Flat(t.kids[i], base + 1, b) \o FlatKids(i + 1, b + SizeOf(t.kids[i]))
    IN << [tag |-> t.tag, attrib |-> t.attrib, text |-> t.text, tail |-> t.tail,
           kids |-> <<>>, parent |-> p] >> \o FlatKids(1, base + 1)

RECURSIVE SortedSeq(_)
\* The elements of a finite set of numbers, ascending.
SortedSeq(S) ==
    IF S = {} THEN <<>>
    ELSE LET m == CHOOSE x \in S : \A y \in S : x <= y
         IN <<m>> \o SortedSeq(S \ {m})

\* The heap h extended with fresh nodes holding tree value t; the root of
\* the new document is Len(h) + 1.
Build(h, t) ==
    LET base == Len(h)
        flat == Flat(t, None, base)
        ids == (base + 1)..(base + Len(flat))
    IN h \o [i \in 1..Len(flat) |->
               [flat[i] EXCEPT !.kids =
                   SortedSeq({j \in ids : flat[j - base].parent = base + i})]]

RECURSIVE Tree(_, _)
\* The tree value of the subtree of node n: what the document says, whatever
\* the ids of its nodes.
Tree(h, n) ==
    [tag |-> h[n].tag, attrib |-> h[n].attrib, text |-> h[n].text,
     tail |-> h[n].tail, kids |-> [i \in 1..Len(h[n].kids) |-> Tree(h, h[n].kids[i])]]

RECURSIVE RootOf(_, _)
\* element.getroottree(): the root of the document that holds node n.
RootOf(h, n) == IF h[n].parent = None THEN n ELSE RootOf(h, h[n].parent)

\* The position of x in sequence s (0: not in it).
IndexOf(s, x) ==
    IF \E i \in 1..Len(s) : s[i] = x
    THEN CHOOSE i \in 1..Len(s) : s[i] = x /\ \A j \in 1..(i - 1) : s[j] # x
    ELSE 0

RECURSIVE PathOf(_, _)
\* The child positions that lead from the root of its document to node n.
PathOf(h, n) ==
    IF h[n].parent = None THEN <<>>
    ELSE Append(PathOf(h, h[n].parent), IndexOf(h[h[n].parent].kids, n))

RECURSIVE NodeAt(_, _, _)
\* The node a path leads to from node r (None when the path leaves the tree).
NodeAt(h, r, path) ==
    IF path = <<>> THEN r
    ELSE IF path[1] > Len(h[r].kids) THEN None
    ELSE NodeAt(h, h[r].kids[path[1]], Tail(path))

RECURSIVE Traverse(_, _)
\* The nodes of the subtree of n, in document order.
Traverse(h, n) ==
    LET RECURSIVE Kids(_)
        Kids(i) == IF i > Len(h[n].kids) THEN <<>>
                   ELSE Traverse(h, h[n].kids[i]) \o Kids(i + 1)
    IN <<n>> \o Kids(1)

\* The set of the elements of a sequence.
Range(s) == {s[i] : i \in 1..Len(s)}

\* ------------------------------------------------------- the traversal

\* The sibling that follows node c (None: c is the last, or has no parent).
NextSibling(h, c) ==
    LET p == h[c].parent
        i == IF p = None THEN 0 ELSE IndexOf(h[p].kids, c)
    IN IF p = None \/ i = Len(h[p].kids) THEN None ELSE h[p].kids[i + 1]

RECURSIVE Climb(_, _, _)
\* The next node after the subtree of c: its next sibling, or that of the
\* nearest ancestor below top that has one.
Climb(h, top, c) ==
    IF NextSibling(h, c) # None THEN NextSibling(h, c)
    ELSE IF h[c].parent = None \/ h[c].parent = top THEN None
    ELSE Climb(h, top, h[c].parent)

\* One step of root.iter(): the node that follows c in document order, read
\* off the tree as it is now (the iterator is lazy).
Advance(h, top, c) ==
    IF h[c].kids # <<>> THEN h[c].kids[1]
    ELSE IF c = top THEN None
    ELSE Climb(h, top, c)

RECURSIVE IterSeq(_, _, _)
\* The elements the traversal still yields when its next node is cur.
IterSeq(h, top, cur) ==
    IF cur = None THEN <<>> ELSE <<cur>> \o IterSeq(h, top, Advance(h, top, cur))

\* ------------------------------------------------- get_element_by_tag

\* The candidates a caller passes: nothing, a list of elements, or the
\* traversal self.elements the constructor retained.
NoCandidates == [kind |-> "none", list |-> <<>>]

ListCandidates(l) == [kind |-> "list", list |-> l]

TheTraversal == [kind |-> "iter", list |-> <<>>]

\* not elements: None and the empty list are falsy, an iterator never is.
Falsy(cand) == cand.kind = "none" \/ (cand.kind = "list" /\ cand.list = <<>>)

\* logger.error(f"Element with tag {tag=} not found.")
NotFoundMessage(tag) == [level |-> "error", count |-> 0, tag |-> tag]

RECURSIVE ForListLast(_, _, _, _)
\* A loop that keeps looking after a match: the last element with the tag.
ForListLast(h, l, i, tag) ==
    IF i > Len(l) THEN None
    ELSE LET later == ForListLast(h, l, i + 1, tag)
         IN IF later # None THEN later
            ELSE IF h[l[i]].tag = tag THEN l[i] ELSE None

RECURSIVE ForList(_, _, _, _)
\* The loop of get_element_by_tag over a list, from position i: the first
\* element whose tag is the one looked for, or None.
ForList(h, l, i, tag) ==
    IF i > Len(l) THEN None
    ELSE IF h[l[i]].tag = tag THEN l[i]
    ELSE ForList(h, l, i + 1, tag)

RECURSIVE ForIterPeek(_, _, _, _, _)
\* A loop that leaves the element it returns on the traversal.
ForIterPeek(h, top, cur, prev, tag) ==
    IF cur = None THEN [ret |-> None, next |-> None, seen |-> prev]
    ELSE IF h[cur].tag = tag THEN [ret |-> cur, next |-> cur, seen |-> prev]
    ELSE ForIterPeek(h, top, Advance(h, top, cur), cur, tag)

RECURSIVE ForIter(_, _, _, _, _)
\* The same loop over the traversal: each turn takes the next node off it.
\* ret is the element found, next the traversal's next node afterwards and
\* seen the last node taken off the traversal (prev when none was).
ForIter(h, top, cur, prev, tag) ==
    IF cur = None THEN [ret |-> None, next |-> None, seen |-> prev]
    ELSE IF h[cur].tag = tag
         THEN [ret |-> cur, next |-> Advance(h, top, cur), seen |-> cur]
    ELSE ForIter(h, top, Advance(h, top, cur), cur, tag)

\* get_element_by_tag with the tag tested only after the loop has run.
GetElementByTagLate(h, top, cur, prev, tag, cand) ==
    LET it == ForIter(h, top, cur, prev, tag)
        ret == IF cand.kind = "iter" THEN it.ret ELSE ForList(h, cand.list, 1, tag)
    IN [raised |-> IF tag = "" \/ Falsy(cand) THEN "ValueError" ELSE "none",
        ret  |-> IF tag = "" \/ Falsy(cand) THEN None ELSE ret,
        next |-> IF cand.kind = "iter" THEN it.next ELSE cur,
        seen |-> IF cand.kind = "iter" THEN it.seen ELSE prev,
        logged |-> IF ret = None /\ tag # "" /\ ~Falsy(cand)
                   THEN <<NotFoundMessage(tag)>> ELSE <<>>]

\* get_element_by_tag(tag, elements), the traversal's next node being cur:
\* what it raises, what it returns, what it logs and where it leaves the
\* traversal.
GetElementByTag(h, top, cur, prev, tag, cand) ==
    IF tag = "" \/ Falsy(cand)
    THEN [raised |-> "ValueError", ret |-> None, next |-> cur, seen |-> prev,
          logged |-> <<>>]
    ELSE LET it == ForIter(h, top, cur, prev, tag)
             ret == IF cand.kind = "iter" THEN it.ret
                    ELSE ForList(h, cand.list, 1, tag)
         IN [raised |-> "none", ret |-> ret,
             next |-> IF cand.kind = "iter" THEN it.next ELSE cur,
             seen |-> IF cand.kind = "iter" THEN it.seen ELSE prev,
             logged |-> IF ret = None THEN <<NotFoundMessage(tag)>> ELSE <<>>]

\* ------------------------------------------------------- split_records

\* The element a caller passes: None, something that is no element (a
\* string, say), or a node.
NoElement == [kind |-> "none", id |-> None]

NotAnElement == [kind |-> "other", id |-> None]

AnElement(n) == [kind |-> "element", id |-> n]

RECURSIVE PyRangeAbs(_, _, _)
\* A range that steps by the size of the step, whatever its sign.
PyRangeAbs(start, stop, step) ==
    IF start < stop
    THEN <<start>> \o PyRangeAbs(start + (IF step < 0 THEN -step ELSE step), stop, step)
    ELSE <<>>

RECURSIVE PyRange(_, _, _)
\* list(range(start, stop, step)), step # 0.
PyRange(start, stop, step) ==
    IF (step > 0 /\ start < stop) \/ (step < 0 /\ start > stop)
    THEN <<start>> \o PyRange(start + step, stop, step)
    ELSE <<>>

\* s[lo:hi] for 0 <= lo <= hi: the elements at the 0-based positions
\* lo .. hi - 1 that s has.
Slice(s, lo, hi) ==
    SubSeq(s, lo + 1, IF hi < Len(s) THEN hi ELSE Len(s))

\* The chunk list with a slice one record short of the step.
ChunkedShort(records, k) ==
    LET starts == PyRange(0, Len(records), k)
    IN [c \in 1..Len(starts) |->
          Slice(records, starts[c], starts[c] + (IF k > 1 THEN k - 1 ELSE k))]

\* [records[i : i + k] for i in range(0, len(records), k)], k # 0.
Chunked(records, k) ==
    LET starts == PyRange(0, Len(records), k)
    IN [c \in 1..Len(starts) |-> Slice(records, starts[c], starts[c] + k)]

\* A clear that leaves the element as it is.
ClearNothing(h, e) == h

\* element.clear(): the element loses its children (each is unlinked from
\* it), its attributes, its text and its tail.
Clear(h, e) ==
    [n \in 1..Len(h) |->
        IF n = e THEN [h[n] EXCEPT !.kids = <<>>, !.attrib = None,
                                   !.text = None, !.tail = None]
        ELSE IF h[n].parent = e THEN [h[n] EXCEPT !.parent = None]
        ELSE h[n]]

\* s without its elements equal to x.
Without(s, x) ==
    LET RECURSIVE W(_)
        W(i) == IF i > Len(s) THEN <<>>
                ELSE (IF s[i] = x THEN <<>> ELSE <<s[i]>>) \o W(i + 1)
    IN W(1)

\* An append that puts the record first.
PrependChild(h, e, r) ==
    [n \in 1..Len(h) |->
        IF n = e THEN [h[n] EXCEPT !.kids = <<r>> \o Without(@, r)]
        ELSE IF n = r THEN [h[n] EXCEPT !.parent = e]
        ELSE IF n = h[r].parent THEN [h[n] EXCEPT !.kids = Without(@, r)]
        ELSE h[n]]

\* element.append(record): the record is unlinked from the parent it has, if
\* any, and becomes the last child of the element.
AppendChild(h, e, r) ==
    [n \in 1..Len(h) |->
        IF n = e THEN [h[n] EXCEPT !.kids = Append(Without(@, r), r)]
        ELSE IF n = r THEN [h[n] EXCEPT !.parent = e]
        ELSE IF n = h[r].parent THEN [h[n] EXCEPT !.kids = Without(@, r)]
        ELSE h[n]]

RECURSIVE AppendAll(_, _, _)
\* for record in chunk: element.append(record)
AppendAll(h, e, chunk) ==
    IF chunk = <<>> THEN h
    ELSE AppendAll(AppendChild(h, e, Head(chunk)), e, Tail(chunk))

\* A copy that is the document itself.
ShallowCopy(h, r) == [heap |-> h, root |-> r]

\* tree.__deepcopy__(memo={}): a new document of fresh nodes that says what
\* the document of root r says.
DeepCopy(h, r) == [heap |-> Build(h, Tree(h, r)), root |-> Len(h) + 1]

\* logger.info(...) whatever display_messages is.
InfoAlways(display, log, n) ==
    Append(log, [level |-> "info", count |-> n, tag |-> ""])

\* if display_messages: logger.info(f"{n} records ...")
Info(display, log, n) ==
    IF display THEN Append(log, [level |-> "info", count |-> n, tag |-> ""])
    ELSE log

\* ------------------------------------------------------------ write_xml

RECURSIVE Serialize(_)
\* The document as written: each element's opening tag with its attributes,
\* its text, its children, its closing tag and its tail.
Serialize(t) ==
    LET RECURSIVE Kids(_)
        Kids(i) == IF i > Len(t.kids) THEN <<>>
                   ELSE Serialize(t.kids[i]) \o Kids(i + 1)
    IN << <<"open", t.tag, t.attrib>>, <<"text", "", t.text>> >> \o Kids(1)
       \o << <<"close", t.tag, None>>, <<"text", "", t.tail>> >>

\* xml_declaration=True, encoding="utf-8"
Written(t) == << <<"declaration", "utf-8", None>> >> \o Serialize(t)

Absent == <<>>

FilePaths == {"out.xml"}

\* ----------------------------------------------------------- the state

VARIABLES
    heap,      \* the nodes of every document: a sequence, node n at heap[n]
    srcNodes,  \* how many nodes the constructor's parse made (they come first)
    tree,      \* self.tree: the root element of the parsed document, or None
    itNext,    \* self.elements: the node the traversal yields next, or None
    itSeen,    \* the last node the traversal has yielded, or None
    pc,        \* "idle", or "loop" inside the for loop of split_records
    sp,        \* the frame of split_records: its arguments and locals
    result,    \* the list the last split_records returned, held by the caller
    last,      \* the last call: which, what it raised, what it returned
    logged,    \* the messages the last call gave to the logger
    files,     \* the content of each file, or Absent
    nmut       \* the mutations the caller has made to the documents it holds

vars == <<heap, srcNodes, tree, itNext, itSeen, pc, sp, result, last, logged,
          files, nmut>>

\* No call of split_records is under way or was the last call.
NoFrame ==
    [element |-> None, k |-> 0, display |-> FALSE, before |-> <<>>,
     records |-> <<>>, chunked |-> <<>>, i |-> 0, xmls |-> <<>>]

Outcome(op, raised, at, ret, tag, cand, seq, node) ==
    [op |-> op, raised |-> raised, at |-> at, ret |-> ret, tag |-> tag,
     cand |-> cand, seq |-> seq, node |-> node]

Init ==
    /\ heap = <<>>
    /\ srcNodes = 0
    /\ tree = None
    /\ itNext = None
    /\ itSeen = None
    /\ pc = "idle"
    /\ sp = NoFrame
    /\ result = <<>>
    /\ last = Outcome("none", "none", "", None, "", NoCandidates, <<>>, None)
    /\ logged = <<>>
    /\ files = [p \in FilePaths |-> Absent]
    /\ nmut = 0

\* The roots of the documents there are: the parsed one and the caller's.
Documents == (IF tree = None THEN {} ELSE {tree}) \cup Range(result)

\* The first child of node n, or None.
FirstKid(n) == IF n = None \/ heap[n].kids = <<>> THEN None ELSE heap[n].kids[1]

\* The elements of the parsed document the caller has a handle on: the root,
\* its first child (the list of records) and the first child of that.
Handles ==
    IF tree = None THEN {}
    ELSE {tree, FirstKid(tree), FirstKid(FirstKid(tree))} \ {None}

\* The caller has neither mutated the documents it holds nor written a file
\* since it last let go of them: it works on one batch at a time, and is done
\* with the object's methods once it starts on the batch.
Untouched == nmut = 0 /\ \A p \in FilePaths : files[p] = Absent

\* XmlBreaker(etree, xml, logger)
Construct(xml) ==
    /\ tree = None
    /\ pc = "idle"
    /\ logged' = <<>>
    /\ IF xml = EmptyBytes
       THEN /\ last' = Outcome("init", "ValueError", "validation", None, "",
                               NoCandidates, <<>>, None)
            /\ UNCHANGED <<heap, srcNodes, tree, itNext>>
       ELSE /\ heap' = Build(<<>>, xml)
            /\ srcNodes' = Len(heap')
            /\ tree' = 1
            /\ itNext' = 1
            /\ last' = Outcome("init", "none", "", None, "", NoCandidates, <<>>, None)
    /\ UNCHANGED <<itSeen, pc, sp, result, files, nmut>>

\* get_element_by_tag(tag, elements)
Lookup(tag, cand) ==
    /\ tree # None
    /\ pc = "idle"
    /\ Untouched
    /\ LET r == GetElementByTag(heap, tree, itNext, itSeen, tag, cand)
       IN /\ itNext' = r.next
          /\ itSeen' = r.seen
          /\ logged' = r.logged
          /\ last' = Outcome("lookup", r.raised,
                             IF r.raised = "none" THEN "" ELSE "validation",
                             r.ret, tag, cand,
                             IF cand.kind = "iter" THEN IterSeq(heap, tree, itNext)
                             ELSE cand.list,
                             itNext)
    /\ sp' = NoFrame
    /\ UNCHANGED <<heap, srcNodes, tree, pc, result, files, nmut>>

\* split_records(element, number_of_records, display_messages), to the for
\* loop: the validation, the records, the first message and the chunk list.
\* The caller has let go of the documents of the split before.
SplitBegin(element, k, display) ==
    /\ tree # None
    /\ pc = "idle"
    /\ Untouched
    /\ result = <<>>
    /\ IF element.kind # "element"
       THEN /\ last' = Outcome("split", "ValueError", "validation", None, "",
                               NoCandidates, <<>>, element.id)
            /\ logged' = <<>>
            /\ sp' = NoFrame
            /\ pc' = pc
       ELSE LET records == heap[element.id].kids
            IN /\ logged' = Info(display, <<>>, Len(records))
               /\ IF k = 0
                  THEN /\ last' = Outcome("split", "ValueError", "range", None, "",
                                          NoCandidates, <<>>, element.id)
                       /\ sp' = [NoFrame EXCEPT !.element = element.id,
                                                !.k = k,
                                                !.display = display,
                                                !.before = heap,
                                                !.records = records]
                       /\ pc' = pc
                  ELSE /\ last' = Outcome("split", "none", "running", None, "",
                                          NoCandidates, <<>>, element.id)
                       /\ sp' = [element |-> element.id, k |-> k,
                                 display |-> display, before |-> heap,
                                 records |-> records,
                                 chunked |-> Chunked(records, k),
                                 i |-> 1, xmls |-> <<>>]
                       /\ pc' = "loop"
    /\ UNCHANGED <<heap, srcNodes, tree, itNext, itSeen, result, files, nmut>>

\* One turn of the for loop: clear the element, append the chunk's records,
\* log their number and append a deep copy of the document to xmls.
SplitChunk ==
    /\ pc = "loop"
    /\ sp.i <= Len(sp.chunked)
    /\ LET e == sp.element
           h1 == Clear(heap, e)
           h2 == AppendAll(h1, e, sp.chunked[sp.i])
           copy == DeepCopy(h2, RootOf(h2, e))
       IN /\ heap' = copy.heap
          /\ logged' = Info(sp.display, logged, Len(h2[e].kids))
          /\ sp' = [sp EXCEPT !.i = @ + 1, !.xmls = Append(@, copy.root)]
    /\ UNCHANGED <<srcNodes, tree, itNext, itSeen, pc, result, last, files, nmut>>

\* return xmls
SplitReturn ==
    /\ pc = "loop"
    /\ sp.i > Len(sp.chunked)
    /\ pc' = "idle"
    /\ result' = sp.xmls
    /\ last' = [last EXCEPT !.at = ""]
    /\ UNCHANGED <<heap, srcNodes, tree, itNext, itSeen, sp, logged, files, nmut>>

\* write_xml(element, file_path), element the document of root r
Write(r, path) ==
    /\ tree # None
    /\ pc = "idle"
    /\ nmut = 0
    /\ logged' = <<>>
    /\ sp' = NoFrame
    /\ IF path = ""
       THEN /\ last' = Outcome("write", "ValueError", "validation", None, path,
                               NoCandidates, <<>>, r)
            /\ files' = files
       ELSE /\ last' = Outcome("write", "none", "", None, path, NoCandidates, <<>>, r)
            /\ files' = [files EXCEPT ![path] = Written(Tree(heap, r))]
    /\ UNCHANGED <<heap, srcNodes, tree, itNext, itSeen, pc, result, nmut>>

\* The caller changes element n of a document split_records returned: it
\* sets the element's text, or removes the element's last child.
Mutate(n, kind) ==
    /\ pc = "idle"
    /\ \A p \in FilePaths : files[p] = Absent
    /\ nmut < MaxMutations
    /\ nmut' = nmut + 1
    /\ kind = "remove" => heap[n].kids # <<>>
    /\ heap' = IF kind = "text" THEN [heap EXCEPT ![n].text = @ + 100]
               ELSE LET c == heap[n].kids[Len(heap[n].kids)]
                    IN [heap EXCEPT ![n].kids = SubSeq(@, 1, Len(@) - 1),
                                    ![c].parent = None]
    /\ last' = Outcome("mutate", "none", "", None, kind, NoCandidates, <<>>, n)
    /\ logged' = <<>>
    /\ sp' = NoFrame
    /\ UNCHANGED <<srcNodes, tree, itNext, itSeen, pc, result, files>>

\* The caller is done with a batch: the files go downstream and it lets go
\* of the documents split_records returned.
Release ==
    /\ pc = "idle"
    /\ result # <<>> \/ ~Untouched
    /\ heap' = SubSeq(heap, 1, srcNodes)
    /\ result' = <<>>
    /\ files' = [p \in FilePaths |-> Absent]
    /\ nmut' = 0
    /\ last' = Outcome("release", "none", "", None, "", NoCandidates, <<>>, None)
    /\ logged' = <<>>
    /\ sp' = NoFrame
    /\ UNCHANGED <<srcNodes, tree, itNext, itSeen, pc>>

\* The tags a caller looks up.
Tags == {"", "rec", "records", "item"}

\* The chunk sizes a caller passes.
ChunkSizes == (-1)..MaxChunk

Next ==
    \/ \E xml \in XmlInputs : Construct(xml)
    \/ \E tag \in Tags : Lookup(tag, TheTraversal)
    \/ \E tag \in Tags : Lookup(tag, NoCandidates)
    \/ \E tag \in Tags : \E n \in Handles : Lookup(tag, ListCandidates(heap[n].kids))
    \/ \E k \in ChunkSizes : \E display \in BOOLEAN : SplitBegin(NoElement, k, display)
    \/ \E k \in ChunkSizes : \E display \in BOOLEAN : SplitBegin(NotAnElement, k, display)
    \/ \E k \in ChunkSizes : \E display \in BOOLEAN : \E n \in Handles :
          SplitBegin(AnElement(n), k, display)
    \/ SplitChunk
    \/ SplitReturn
    \/ \E r \in Documents : \E path \in {""} \cup FilePaths : Write(r, path)
    \/ \E d \in Range(result) : \E n \in Range(Traverse(heap, d)) :
          \E kind \in {"text", "remove"} : Mutate(n, kind)
    \/ Release

Spec == Init /\ [][Next]_vars

\* ------------------------------------------------------ the properties

\* split_records ran its loop and has just returned.
Returned == pc = "idle" /\ last.op = "split" /\ last.raised = "none"

\* split_records passed its validation and built its chunk list.
Splitting == last.op = "split" /\ last.raised = "none"

\* The path from the root to the element split_records was given.
TargetPath == PathOf(sp.before, sp.element)

\* The target element of document d: the element at the target's place.
TargetIn(d) == NodeAt(heap, d, TargetPath)

\* What the children of node n say, in order.
KidsOf(h, n) == [i \in 1..Len(h[n].kids) |-> Tree(h, h[n].kids[i])]

\* What the records say that the element held when split_records was called.
OriginalKids == KidsOf(sp.before, sp.element)

RECURSIVE ChunkKids(_, _)
\* What the target's children say in the documents docs[j], docs[j + 1], ...
ChunkKids(docs, j) ==
    IF j > Len(docs) THEN <<>>
    ELSE KidsOf(heap, TargetIn(docs[j])) \o ChunkKids(docs, j + 1)

\* ceil(n / k), k >= 1
CeilDiv(n, k) == (n + k - 1) \div k

\* C1: for N >= 0 children and a chunk size K >= 1, split_records returns
\* ceil(N / K) documents (none when N = 0), and the children of the target
\* element of the returned documents, taken document after document, are the
\* original N children in their order: none missing, duplicated or moved.
C1_PartitionComplete ==
    (Returned /\ sp.k >= 1) =>
        /\ Len(result) = CeilDiv(Len(sp.records), sp.k)
        /\ \A j \in 1..Len(result) : TargetIn(result[j]) # None
        /\ ChunkKids(result, 1) = OriginalKids

C1_Witness ==
    /\ Returned
    /\ sp.k = 2
    /\ Len(sp.records) = 3
    /\ Len(result) = 2

\* C2: for N >= 1 and K >= 1, every returned document but the last has
\* exactly K children under the target element, the last has N mod K, or K
\* when K divides N; none has no children or more than K.
C2_ChunkSizes ==
    (Returned /\ sp.k >= 1 /\ Len(sp.records) >= 1) =>
        \A j \in 1..Len(result) :
            LET count == Len(heap[TargetIn(result[j])].kids)
                n == Len(sp.records)
            IN /\ count = IF j < Len(result) THEN sp.k
                          ELSE IF n % sp.k = 0 THEN sp.k ELSE n % sp.k
               /\ count >= 1
               /\ count <= sp.k

C2_Witness ==
    /\ Returned
    /\ sp.k = 2
    /\ Len(sp.records) = 3
    /\ Len(heap[TargetIn(result[1])].kids) = 2
    /\ Len(heap[TargetIn(result[2])].kids) = 1

\* The nodes of the document of root d.
NodesOf(h, d) == Range(Traverse(h, d))

\* The nodes the constructor's parse made: those of the live source
\* document, in its tree or unlinked from it.
SourceNodes == 1..srcNodes

\* The documents in xmls share no node with each other or with the source,
\* and each still holds the chunk it was copied with.
C3_Apart ==
    Splitting =>
        /\ \A j \in 1..Len(sp.xmls) : NodesOf(heap, sp.xmls[j]) \cap SourceNodes = {}
        /\ \A j1, j2 \in 1..Len(sp.xmls) :
              j1 < j2 => NodesOf(heap, sp.xmls[j1]) \cap NodesOf(heap, sp.xmls[j2]) = {}
        /\ \A j \in 1..Len(sp.xmls) :
              KidsOf(heap, TargetIn(sp.xmls[j])) =
                 [i \in 1..Len(sp.chunked[j]) |-> Tree(sp.before, sp.chunked[j][i])]

\* A turn of the loop leaves the documents already in xmls as they were.
C3_LoopKeeps ==
    (pc = "loop" /\ pc' = "loop") =>
        \A j \in 1..Len(sp.xmls) :
            /\ Tree(heap', sp.xmls[j]) = Tree(heap, sp.xmls[j])
            /\ NodesOf(heap', sp.xmls[j]) = NodesOf(heap, sp.xmls[j])

\* A mutation of an element of one returned document leaves every other
\* returned document and the source document as they were.
C3_MutationKeeps ==
    (nmut' = nmut + 1) =>
        LET mine == RootOf(heap, last'.node)
        IN /\ mine \in Range(result)
           /\ Tree(heap', mine) # Tree(heap, mine)
           /\ \A d \in Documents \ {mine} :
                 /\ Tree(heap', d) = Tree(heap, d)
                 /\ Len(heap'[d].kids) = Len(heap[d].kids)
           /\ \A n \in SourceNodes : heap'[n] = heap[n]

\* C3: every document split_records returns shares no node with another
\* returned document or with the live source document, so (a) the later turns
\* of the loop, which clear and refill the live target element, never change
\* a document already in the result list, and (b) after the return, mutating
\* the elements of one returned document changes neither the content nor the
\* child count of another returned document or of the source document.
C3_Independence ==
    /\ []C3_Apart
    /\ [][C3_LoopKeeps /\ C3_MutationKeeps]_vars

C3_Witness ==
    /\ last.op = "mutate"
    /\ nmut = 1
    /\ Len(result) = 3
    /\ last.node \in NodesOf(heap, result[2])

\* The tree value t with the children of the node at path replaced by ks.
RECURSIVE WithKids(_, _, _)
WithKids(t, path, ks) ==
    IF path = <<>> THEN [t EXCEPT !.kids = ks]
    ELSE [t EXCEPT !.kids[path[1]] = WithKids(@, Tail(path), ks)]

\* C4: each document split_records returns is a copy of the document as it
\* was before the call but for the children of the target element, which are
\* one chunk: the target's tag, attributes and text, its ancestors and its
\* siblings are those of the document before the call.
C4_OnlyChildrenDiffer ==
    Returned =>
        \A j \in 1..Len(result) :
            Tree(heap, result[j]) =
                WithKids(Tree(sp.before, RootOf(sp.before, sp.element)),
                         TargetPath, KidsOf(heap, TargetIn(result[j])))

\* The last call was a lookup of a tag in a sequence of candidates.
LookedUp == last.op = "lookup"

\* The positions in the supplied sequence of the elements with the tag.
Matches == {i \in 1..Len(last.seq) : heap[last.seq[i]].tag = last.tag}

\* C5: for a non-empty tag and a non-empty sequence of candidates,
\* get_element_by_tag returns the first element of the sequence, in its
\* order, whose tag is the tag looked for, and logs nothing; when no element
\* has the tag it raises nothing, returns nothing and logs one error.
C5_FirstMatch ==
    (LookedUp /\ last.tag # "" /\ last.seq # <<>>) =>
        /\ last.raised = "none"
        /\ IF Matches = {}
           THEN /\ last.ret = None
                /\ logged = <<NotFoundMessage(last.tag)>>
           ELSE /\ \E i \in Matches :
                      /\ last.ret = last.seq[i]
                      /\ \A j \in 1..(i - 1) : j \notin Matches
                /\ logged = <<>>

C5_Witness ==
    /\ LookedUp
    /\ last.tag = "rec"
    /\ Cardinality(Matches) >= 2
    /\ last.ret # None
    /\ last.ret # last.seq[1]

\* A call that fails its validation raises InvalidInput (ValueError).
C6_Rejected ==
    /\ (last.op = "init" /\ tree = None) => last.raised = "ValueError"
    /\ (LookedUp /\ (last.tag = "" \/ Falsy(last.cand))) => last.raised = "ValueError"
    /\ (last.op = "split" /\ last.node = None) => last.raised = "ValueError"
    /\ (last.op = "write" /\ last.tag = "") => last.raised = "ValueError"
    /\ last.raised = "ValueError" => pc = "idle"

\* A step to a failed validation changes nothing but the record of the call.
C6_NoEffect ==
    (last'.raised = "ValueError" /\ last'.at = "validation") =>
        /\ heap' = heap
        /\ srcNodes' = srcNodes
        /\ tree' = tree
        /\ itNext' = itNext
        /\ itSeen' = itSeen
        /\ result' = result
        /\ files' = files
        /\ nmut' = nmut
        /\ pc' = pc
        /\ logged' = <<>>

\* C6: the constructor with empty bytes, get_element_by_tag with an empty
\* tag or with no or an empty collection of candidates, split_records with no
\* element or with something that is no element, and write_xml with an empty
\* path each raise InvalidInput before any effect: no document is parsed or
\* kept, no candidate is taken off the traversal, nothing is logged, the
\* element's children stay, no document is produced, no file is written.
C6_FailFast ==
    /\ []C6_Rejected
    /\ [][C6_NoEffect]_vars

C6_Witness ==
    /\ LookedUp
    /\ last.tag = ""
    /\ last.cand = TheTraversal
    /\ last.raised = "ValueError"
    /\ itNext # None
    /\ itSeen # None

\* The records of the chunks before the last one.
EarlierRecords ==
    UNION {Range(sp.chunked[c]) : c \in 1..(Len(sp.chunked) - 1)}

\* C7: after a split_records that returns at least one document (N >= 1,
\* K >= 1) the target element of the live source document holds the children
\* of the last chunk, in order, as the last returned document does, and the
\* children of the earlier chunks are no longer in the source document; in
\* the loop, when copy i is taken the live element's children are chunk i.
C7_SourceKeepsLastChunk ==
    /\ (Splitting /\ sp.i > 1) =>
          /\ heap[sp.element].kids = sp.chunked[sp.i - 1]
          /\ KidsOf(heap, sp.element) = KidsOf(heap, TargetIn(sp.xmls[sp.i - 1]))
    /\ (Returned /\ sp.k >= 1 /\ Len(sp.records) >= 1) =>
          /\ result # <<>>
          /\ heap[sp.element].kids = sp.chunked[Len(sp.chunked)]
          /\ KidsOf(heap, sp.element) = KidsOf(heap, TargetIn(result[Len(result)]))
          /\ \A r \in EarlierRecords :
                /\ heap[r].parent = None
                /\ r \notin NodesOf(heap, tree)

C7_Witness ==
    /\ Returned
    /\ Len(sp.records) = 3
    /\ sp.k = 1
    /\ heap[sp.element].kids = <<sp.records[3]>>

\* The messages are info messages.
AllInfo == \A m \in 1..Len(logged) : logged[m].level = "info"

\* C8 as stated: with display_messages a split that makes C chunks logs
\* 2 * C info messages; without it, none.
C8_TwicePerChunk ==
    Returned =>
        IF sp.display THEN Len(logged) = 2 * Len(sp.chunked) /\ AllInfo
        ELSE logged = <<>>

\* C8, amended: with display_messages a split that makes C chunks logs
\* C + 1 info messages, one with the number of records before the chunks are
\* made and one per chunk with the number of records in it; without
\* display_messages it logs nothing.
C8_OncePerChunkAndOnce ==
    Returned =>
        IF sp.display
        THEN /\ Len(logged) = Len(sp.chunked) + 1
             /\ AllInfo
             /\ logged[1].count = Len(sp.records)
             /\ \A c \in 1..Len(sp.chunked) : logged[c + 1].count = Len(sp.chunked[c])
        ELSE logged = <<>>

C8_Witness ==
    /\ Returned
    /\ sp.display
    /\ Len(sp.chunked) = 2
    /\ Len(logged) = 3

\* The nodes of the parsed document are numbered in document order, and no
\* split changes the order of those that stay in the tree.
C9_DocumentOrder ==
    tree # None =>
        LET t == Traverse(heap, tree)
        IN \A i, j \in 1..Len(t) : i < j => t[i] < t[j]

\* A step that is a lookup on the traversal self.elements.
TraversalLookup ==
    /\ last'.op = "lookup"
    /\ last'.cand = TheTraversal
    /\ last'.raised = "none"

\* A lookup on the traversal takes the nodes off it up to the one it
\* returns, which comes after every node taken off before; a lookup that finds
\* nothing leaves the traversal exhausted.
C9_Consumes ==
    TraversalLookup =>
        IF last'.ret # None
        THEN /\ itSeen' = last'.ret
             /\ last'.ret > itSeen
        ELSE itNext' = None

\* The last node taken off the traversal only moves on in document order,
\* and the exhausted traversal stays exhausted.
C9_Forward ==
    /\ itSeen' >= itSeen
    /\ (tree # None /\ itNext = None) => itNext' = None

\* A lookup on the exhausted traversal raises nothing, returns nothing and
\* logs one error.
C9_Exhausted ==
    (tree # None /\ itNext = None /\ last'.op = "lookup"
       /\ last'.cand = TheTraversal /\ last'.tag # "") =>
        /\ last'.raised = "none"
        /\ last'.ret = None
        /\ logged' = <<NotFoundMessage(last'.tag)>>
        /\ itNext' = None

\* C9: the traversal kept at construction is a one-shot iterator, and
\* get_element_by_tag takes the elements off it up to and including the one
\* it returns.  So over the lookups on that traversal a later lookup never
\* returns an element at or before one returned earlier, in document order,
\* and once a lookup has found nothing the traversal is exhausted: every
\* later lookup on it returns nothing and logs an error, never InvalidInput.
C9_SinglePass ==
    /\ []C9_DocumentOrder
    /\ [][C9_Consumes /\ C9_Forward /\ C9_Exhausted]_vars

C9_Witness ==
    /\ LookedUp
    /\ last.cand = TheTraversal
    /\ last.tag = "rec"
    /\ last.node = None
    /\ last.ret = None
    /\ itSeen # None
    /\ heap[itSeen].tag = "rec"

\* The element is as it was when split_records was called, and so is
\* everything else; no document was made.
Untouched10 == heap = sp.before /\ result = <<>> /\ sp.xmls = <<>>

\* In every state of a split with nothing to do the loop is not entered.
C10_NothingDone ==
    /\ (last.op = "split" /\ last.node # None /\ sp.k = 0) =>
          /\ last.raised = "ValueError"
          /\ last.at = "range"
          /\ pc = "idle"
          /\ Untouched10
    /\ (Splitting /\ (sp.k < 0 \/ sp.records = <<>>)) =>
          /\ sp.chunked = <<>>
          /\ Untouched10
    /\ (Returned /\ (sp.k < 0 \/ sp.records = <<>>)) => result = <<>>

\* The loop has a turn for each chunk and no more: there are at most as many
\* chunks as records, and in the loop the turn counter is within the list or
\* just past it, where the method returns.
C10_LoopBounded ==
    pc = "loop" =>
        /\ Len(sp.chunked) <= Len(sp.records)
        /\ sp.i >= 1
        /\ sp.i <= Len(sp.chunked) + 1

\* Each step in the loop is a turn that moves to the next chunk, or the
\* return.
C10_LoopAdvances ==
    pc = "loop" => (pc' = "loop" /\ sp'.i = sp.i + 1) \/ (pc' = "idle" /\ Returned')

\* C10: split_records ends for every chunk size and every list of children;
\* with chunk size 0 it raises while it builds the chunk list, with a
\* negative chunk size it returns an empty list, and so it does when the
\* element has no children and the chunk size is not 0; in each case the
\* loop is not entered, no document is made and the element's children are
\* as they were.
C10_NonPositive ==
    /\ []C10_NothingDone
    /\ []C10_LoopBounded
    /\ [][C10_LoopAdvances]_vars

C10_Witness ==
    /\ Returned
    /\ sp.k < 0
    /\ Len(sp.records) >= 2
    /\ result = <<>>
    /\ heap[sp.element].kids = sp.records

====
